---- MODULE Spec2Model ----
(***************************************************************************)
(* A model of rust-tree: the path-line driver (src/main.rs) and the        *)
(* Node / Tree types with insertion and lookup by name (src/node.rs).      *)
(*                                                                         *)
(* A Rust String is a sequence of one-character strings, so that           *)
(* str::split, Vec::remove, join and contains are computed, not assumed.   *)
(* An Option<T> is a sequence of length 0 (None) or 1 (Some).              *)
(* A Node is a record whose children field is a sequence of Nodes: the     *)
(* nested ownership of Vec<Node>.                                          *)
(***************************************************************************)
EXTENDS Integers, Sequences, FiniteSets, TLC

VARIABLES
  root,    \* Tree.root : Option<Node>
  status,  \* "running", or "panicked" once the process has aborted
  hist,    \* the lines the driver loop has consumed so far, in order
  last     \* what the last operation was and what its caller observed

vars == <<root, status, hist, last>>

----------------------------------------------------------------------------
(* Bounds of the model *)

\* lines the driver loop reads in one run
MaxLines == 4
\* characters of a generated input line (specification SpecParse)
MaxLineLen == 4
\* non-root nodes a tree built through Tree::insert may hold (SpecApi)
MaxNodes == 3
\* largest depth field of a node handed to Tree::insert (SpecApi)
MaxDepth == 3
\* components of the path field of a node handed to Tree::insert (SpecApi)
MaxComps == 2

----------------------------------------------------------------------------
(* Strings and vectors *)

None == <<>>
Some(x) == <<x>>

Slash == "/"
Dot == "."
EmptyStr == <<>>

Min(S) == CHOOSE x \in S : \A y \in S : x <= y

\* str::split(sep): the pieces between separators; never an empty vector
RECURSIVE split(_, _)
split(s, sep) ==
  IF \A i \in 1..Len(s) : s[i] # sep
    THEN <<s>>
    ELSE LET k == Min({i \in 1..Len(s) : s[i] = sep})
         IN  <<SubSeq(s, 1, k - 1)>> \o split(SubSeq(s, k + 1, Len(s)), sep)

\* [&str]::join(sep)
RECURSIVE join(_, _)
join(v, sep) ==
  IF Len(v) = 0 THEN EmptyStr
  ELSE IF Len(v) = 1 THEN v[1]
  ELSE v[1] \o <<sep>> \o join(Tail(v), sep)

\* str::contains(c)
contains(s, c) == \E i \in 1..Len(s) : s[i] = c

\* Vec::remove(idx), idx counted from 0 as in the source
remove(v, idx) == SubSeq(v, 1, idx) \o SubSeq(v, idx + 2, Len(v))

----------------------------------------------------------------------------
(* Node *)

File == "File"
Directory == "Directory"

NodeData(default_path) == [default_path |-> default_path, length |-> Len(default_path)]

new_root ==
  [ node_type |-> Directory,
    data      |-> NodeData(<<Slash>>),
    depth     |-> 0,
    path      |-> <<Slash>>,
    name      |-> <<"r", "o", "o", "t">>,
    children  |-> <<>> ]

new_file(data, depth, path, name) ==
  [ node_type |-> File, data |-> data, depth |-> depth,
    path |-> path, name |-> name, children |-> <<>> ]

new_directory(data, depth, path, name) ==
  [ node_type |-> Directory, data |-> data, depth |-> depth,
    path |-> path, name |-> name, children |-> <<>> ]

----------------------------------------------------------------------------
(* Tree::insert *)

\* the test `child.depth() == node.depth() + 1`, after two faulty variants of
\* it (faulty variants serve to show that a property depends on the code)
is_direct_child_loose(child, node) == child.depth >= node.depth + 1
is_direct_child_off(child, node) == child.depth = node.depth + 2
is_direct_child(child, node) == child.depth = node.depth + 1

\* node.children.push(child), after three faulty variants
push_front(children, child) == <<child>> \o children
push_lost(children, child) == children
push_unique(children, child) ==
  IF \E i \in 1..Len(children) : children[i].name = child.name
    THEN children ELSE Append(children, child)
push(children, child) == Append(children, child)

\* path[node.depth() as usize]: Some(component), or None where the index is
\* out of bounds and the process panics; after a faulty variant that reads
\* the next component
component_at_next(path, idx) ==
  IF idx + 1 < Len(path) THEN Some(path[idx + 2]) ELSE None
component_at(path, idx) ==
  IF idx < Len(path) THEN Some(path[idx + 1]) ELSE None

\* the loop `for c in &mut node.children { if c.name() == to_find {..; return} }`:
\* the position of the first child of that name, 0 when the loop runs out
first_match(children, to_find) ==
  LET hits == {i \in 1..Len(children) : children[i].name = to_find}
  IN  IF hits = {} THEN 0 ELSE Min(hits)

\* Tree::insert_recursive.  The result holds the node as the call leaves it,
\* how the call ended ("added": pushed, "dropped": the loop found no child,
\* "panic": the index was out of bounds), the number of recursive calls made
\* below this one, and the depth of the node the call ended at.
RECURSIVE insert_recursive(_, _)
insert_recursive(node, child) ==
  IF is_direct_child(child, node)
    THEN [ node |-> [node EXCEPT !.children = push(@, child)],
           outcome |-> "added", descents |-> 0, at |-> node.depth ]
    ELSE
      LET path == split(child.path, Slash)
          to_find == component_at(path, node.depth)
      IN  IF to_find = None
            THEN [ node |-> node, outcome |-> "panic",
                   descents |-> 0, at |-> node.depth ]
            ELSE
              LET i == first_match(node.children, to_find[1])
              IN  IF i = 0
                    THEN [ node |-> node, outcome |-> "dropped",
                           descents |-> 0, at |-> node.depth ]
                    ELSE
                      LET r == insert_recursive(node.children[i], child)
                      IN  [ node |-> [node EXCEPT !.children[i] = r.node],
                            outcome |-> r.outcome,
                            descents |-> r.descents + 1,
                            at |-> r.at ]

\* Tree::insert: a tree without a root gets the synthetic root first
insert(tree_root, node) ==
  LET r0 == IF tree_root = None THEN new_root ELSE tree_root[1]
      r  == insert_recursive(r0, node)
  IN  [ root |-> Some(r.node), outcome |-> r.outcome,
        descents |-> r.descents, at |-> r.at ]

----------------------------------------------------------------------------
(* Tree::find_by_name *)

RECURSIVE find_by_name_recursive(_, _)
RECURSIVE find_in_children(_, _, _)
\* the loop over node.children, from position i on
find_in_children(children, i, name) ==
  IF i > Len(children) THEN None
  ELSE LET found == find_by_name_recursive(children[i], name)
       IN  IF found # None THEN found
           ELSE find_in_children(children, i + 1, name)

\* Tree::find_by_name_recursive, after a faulty variant that tests all the
\* children of a node before it descends into the first
find_siblings_first(node, name) ==
  IF node.name = name THEN Some(node)
  ELSE LET i == first_match(node.children, name)
       IN  IF i # 0 THEN Some(node.children[i])
           ELSE find_in_children(node.children, 1, name)
find_by_name_recursive(node, name) ==
  IF node.name = name THEN Some(node)
  ELSE find_in_children(node.children, 1, name)

find_by_name(tree_root, name) ==
  IF tree_root = None THEN None
  ELSE find_by_name_recursive(tree_root[1], name)

----------------------------------------------------------------------------
(* The driver loop of main, one line at a time *)

\* `if split[0] == "." { split.remove(0); }`
trim_dot(sp) == IF sp[1] = <<Dot>> THEN remove(sp, 0) ELSE sp

\* `if split[split.len() - 1] == "" { split.remove(split.len() - 1); }`,
\* for a vector that is not empty
trim_empty(sp) == IF sp[Len(sp)] = EmptyStr THEN remove(sp, Len(sp) - 1) ELSE sp

\* `let depth = split.len() as u64;`, after a faulty variant that skips
\* empty components
depth_nonempty(sp) == Cardinality({i \in 1..Len(sp) : sp[i] # EmptyStr})
depth_of(sp) == Len(sp)

\* What a panic on `n - 1` with n = 0, used as an index, reports: a build with
\* overflow checks stops at the subtraction; one without wraps to the largest
\* value of the type, which no vector is long enough for, and stops at the
\* index.
underflow_panic(line_no, overflow_checks) ==
  [ panicked |-> TRUE, line_no |-> line_no,
    msg |-> IF overflow_checks THEN "attempt to subtract with overflow"
            ELSE "index out of bounds",
    node |-> None ]

\* Lines 36..70 of main: the node built from one input line, or the panic
\* the line ends in.
BuildNode(line, overflow_checks) ==
  LET split0 == split(line, Slash)
      split1 == trim_dot(split0)
  IN  IF Len(split1) = 0
        THEN underflow_panic(45, overflow_checks)
        ELSE
          LET split2 == trim_empty(split1)
              data   == NodeData(line)
              depth  == depth_of(split2)
          IN  IF depth = 0
                THEN underflow_panic(59, overflow_checks)
                ELSE
                  LET name == split2[(depth - 1) + 1]
                      path == join(split2, Slash)
                  IN  [ panicked |-> FALSE, line_no |-> 0, msg |-> "",
                        node |-> Some(IF contains(name, Dot)
                                        THEN new_file(data, depth, path, name)
                                        ELSE new_directory(data, depth, path, name)) ]

----------------------------------------------------------------------------
(* State *)

\* the value a call of Tree::insert returns: the unit value, in every case
Unit == "()"

NoOp ==
  [ op |-> "none", node |-> None, outcome |-> "", descents |-> 0, at |-> 0,
    ret |-> "", query |-> EmptyStr, found |-> None,
    panic_line |-> 0, panic_msg |-> "" ]

Init ==
  /\ root = None
  /\ status = "running"
  /\ hist = <<>>
  /\ last = NoOp

\* What a call tree.insert(node) leaves behind.  A panic inside
\* insert_recursive (node.rs line 286) ends the process.
InsertEffect(node) ==
  LET r == insert(root, node)
  IN  /\ root' = r.root
      /\ status' = IF r.outcome = "panic" THEN "panicked" ELSE "running"
      /\ last' = [ NoOp EXCEPT !.op = "insert", !.node = Some(node),
                     !.outcome = r.outcome, !.descents = r.descents,
                     !.at = r.at,
                     !.ret = IF r.outcome = "panic" THEN "" ELSE Unit,
                     !.panic_line = IF r.outcome = "panic" THEN 286 ELSE 0,
                     !.panic_msg = IF r.outcome = "panic"
                                     THEN "index out of bounds" ELSE "" ]

\* One turn of the loop `for line in lines` of main
Ingest(line) ==
  /\ status = "running"
  /\ Len(hist) < MaxLines
  /\ hist' = Append(hist, line)
  /\ \E overflow_checks \in BOOLEAN :
       LET b == BuildNode(line, overflow_checks)
       IN  IF b.panicked
             THEN /\ status' = "panicked"
                  /\ last' = [ NoOp EXCEPT !.op = "panic",
                                 !.panic_line = b.line_no, !.panic_msg = b.msg ]
                  /\ UNCHANGED root
             ELSE InsertEffect(b.node[1])

\* A call tree.insert(node) by a caller that built the node itself
Insert(node) ==
  /\ status = "running"
  /\ InsertEffect(node)
  /\ UNCHANGED hist

\* A call tree.find_by_name(name)
FindByName(name) ==
  /\ status = "running"
  /\ last' = [ NoOp EXCEPT !.op = "find", !.query = name,
                 !.found = find_by_name(root, name) ]
  /\ UNCHANGED <<root, status, hist>>

----------------------------------------------------------------------------
(* Inputs *)

\* every sequence over A of at most n elements
SeqsUpTo(A, n) == UNION {[1..k -> A] : k \in 0..n}

\* the lines of a run of the driver (specification Spec)
S_src == <<"s", "r", "c">>
S_node_rs == <<"n", "o", "d", "e", ".", "r", "s">>
S_main_rs == <<"m", "a", "i", "n", ".", "r", "s">>
S_Cargo_toml == <<"C", "a", "r", "g", "o", ".", "t", "o", "m", "l">>
S_root == <<"r", "o", "o", "t">>
S_missing == <<"m", "i", "s", "s", "i", "n", "g">>

L_src == S_src
L_src_node_rs == S_src \o <<Slash>> \o S_node_rs
L_src_main_rs == S_src \o <<Slash>> \o S_main_rs
L_Cargo_toml == S_Cargo_toml
L_src_src == S_src \o <<Slash>> \o S_src
L_root == S_root
L_dot_src_slash == <<Dot, Slash>> \o S_src \o <<Slash>>
L_empty == EmptyStr
L_dot == <<Dot>>

Lines ==
  { L_src, L_src_node_rs, L_src_main_rs, L_Cargo_toml, L_src_src, L_root,
    L_dot_src_slash, L_empty, L_dot }

Queries == { S_src, S_main_rs, S_root, S_missing }

\* the lines of specification SpecParse: every string of at most MaxLineLen
\* characters over an alphabet holding the two characters the driver looks at
LineAlphabet == {"a", "b", Dot, Slash}
GenLines == SeqsUpTo(LineAlphabet, MaxLineLen)

\* the nodes of specification SpecApi: depth, path and name chosen
\* independently of each other; directories are named a, files b, and paths
\* run through directories: a, a/a, ...
ApiNames == { <<"a">>, <<"b">> }
ApiPaths == { join(v, Slash) : v \in SeqsUpTo({<<"a">>}, MaxComps) \ {<<>>} }
ApiNodes ==
  { IF n = <<"b">> THEN new_file(NodeData(p), d, p, n)
                   ELSE new_directory(NodeData(p), d, p, n) :
      <<d, p, n>> \in (0..MaxDepth) \X ApiPaths \X ApiNames }

\* the nodes of the subtree of node, in pre-order
RECURSIVE PreOrder(_)
RECURSIVE PreOrderAll(_, _)
PreOrderAll(children, i) ==
  IF i > Len(children) THEN <<>>
  ELSE PreOrder(children[i]) \o PreOrderAll(children, i + 1)
PreOrder(node) == <<node>> \o PreOrderAll(node.children, 1)

TreeNodes == IF root = None THEN <<>> ELSE PreOrder(root[1])

----------------------------------------------------------------------------
(* Specifications *)

\* the driver: lines are read and inserted; the tree is searched by name
Next ==
  \/ \E line \in Lines : Ingest(line)
  \/ \E name \in Queries : FindByName(name)

Spec == Init /\ [][Next]_vars

\* the driver on a single line, every short line tried
NextParse ==
  \E line \in GenLines : Len(hist) = 0 /\ Ingest(line)

SpecParse == Init /\ [][NextParse]_vars

\* a caller of Tree::insert and Tree::find_by_name that builds nodes itself
NextApi ==
  \/ \E node \in ApiNodes : Len(TreeNodes) <= MaxNodes /\ Insert(node)
  \/ \E name \in ApiNames : FindByName(name)

SpecApi == Init /\ [][NextApi]_vars

----------------------------------------------------------------------------
(* Properties: vocabulary *)

\* the node the driver builds from a line, None where the line panics
Built(line) == BuildNode(line, TRUE).node

\* every line read so far built a node, and each one was read after a line
\* for each of its ancestor directory paths
AncestorsFirst ==
  \A i \in 1..Len(hist) :
    /\ Built(hist[i]) # None
    /\ LET comps == split(Built(hist[i])[1].path, Slash)
       IN  \A k \in 1..(Len(comps) - 1) :
             \E j \in 1..(i - 1) :
               /\ Built(hist[j]) # None
               /\ Built(hist[j])[1].path = join(SubSeq(comps, 1, k), Slash)

\* the node inserted last
LastNode == last.node[1]

\* the line read last
LastLine == hist[Len(hist)]

----------------------------------------------------------------------------
(* C1 *)

\* C1, as stated: when every path is read after its ancestor directory paths,
\* find_by_name of the last component of each path read returns a node whose
\* path is that path, also when another node (or the root) has that name.
C1_FindReturnsInsertedPath ==
  AncestorsFirst =>
    \A i \in 1..Len(hist) :
      LET n == Built(hist[i])[1]
          f == find_by_name(root, n.name)
      IN  f # None /\ f[1].path = n.path

\* C1, amended: under the same ordering, find_by_name of the last component
\* of each path read returns a node of that name, and that node's path is the
\* path read whenever the name is not "root" and no line read has the same
\* last component with another path.
C1_FindReturnsNamedNode ==
  AncestorsFirst =>
    \A i \in 1..Len(hist) :
      LET n == Built(hist[i])[1]
          f == find_by_name(root, n.name)
          unique == /\ n.name # new_root.name
                    /\ \A j \in 1..Len(hist) :
                         Built(hist[j])[1].name = n.name
                           => Built(hist[j])[1].path = n.path
      IN  /\ f # None
          /\ f[1].name = n.name
          /\ unique => f[1].path = n.path

C1_Witness ==
  /\ AncestorsFirst
  /\ hist = <<L_src, L_src_src, L_src_main_rs>>
  /\ last.op = "find"
  /\ last.query = S_main_rs
  /\ last.found # None
  /\ last.found[1].path = L_src_main_rs

----------------------------------------------------------------------------
(* C2 *)

\* C2: an insert whose ancestor chain is missing hands its caller an outcome
\* that differs from the one a successful attachment returns.
C2_OrphanReported ==
  (last.op = "insert" /\ last.outcome = "dropped") => last.ret # Unit

----------------------------------------------------------------------------
(* C3 *)

\* C3: no input line makes the ingestion step abort the process: after every
\* line read, the run is still going.
C3_IngestNeverAborts ==
  Len(hist) >= 1 => (status = "running" /\ last.op # "panic")

----------------------------------------------------------------------------
(* C4 *)

SlashCount(line) == Cardinality({i \in 1..Len(line) : line[i] = Slash})

\* the first component of the line is exactly "."
LeadingDot(line) ==
  /\ Len(line) >= 1
  /\ line[1] = Dot
  /\ (Len(line) = 1 \/ line[2] = Slash)

\* once a leading "." component is gone, the last component is empty
TrailingEmpty(line) ==
  LET rest == IF LeadingDot(line) THEN SubSeq(line, 3, Len(line)) ELSE line
  IN  Len(rest) = 0 \/ rest[Len(rest)] = Slash

\* the number of components, empty ones included, that the two removals leave
ComponentsLeft(line) ==
  SlashCount(line) + 1 - (IF LeadingDot(line) THEN 1 ELSE 0)
                       - (IF TrailingEmpty(line) THEN 1 ELSE 0)

\* the components that the two removals leave
Trimmed(line) ==
  LET s0 == split(line, Slash)
      s1 == IF s0[1] = <<Dot>> THEN Tail(s0) ELSE s0
  IN  IF Len(s1) > 0 /\ s1[Len(s1)] = EmptyStr
        THEN SubSeq(s1, 1, Len(s1) - 1) ELSE s1

NonEmptyLeft(line) ==
  Cardinality({i \in 1..Len(Trimmed(line)) : Trimmed(line)[i] # EmptyStr})

\* C4, as stated: the depth of the node built from a line is the number of
\* non-empty components left after removing one leading "." component and one
\* trailing empty component.
C4_DepthCountsNonEmpty ==
  (last.op = "insert" /\ Len(hist) >= 1) =>
    LastNode.depth = NonEmptyLeft(LastLine)

\* C4, amended: the depth is the number of components left, empty ones
\* included; it is the number of non-empty ones exactly when none of the
\* components left is empty.
C4_DepthCountsComponents ==
  (last.op = "insert" /\ Len(hist) >= 1) =>
    /\ LastNode.depth = ComponentsLeft(LastLine)
    /\ LastNode.depth = NonEmptyLeft(LastLine)
         <=> \A i \in 1..Len(Trimmed(LastLine)) : Trimmed(LastLine)[i] # EmptyStr

C4_Witness ==
  /\ last.op = "insert"
  /\ hist = << <<"a", Slash, Slash, "b">> >>
  /\ LastNode.depth = 3
  /\ LastNode.name = <<"b">>

----------------------------------------------------------------------------
(* C5 *)

\* C5: the root has depth 0 and every other node's depth is one more than
\* the depth of the node whose children list holds it.
C5_DepthIsParentPlusOne ==
  root # None =>
    /\ root[1].depth = 0
    /\ \A i \in 1..Len(TreeNodes) :
         \A k \in 1..Len(TreeNodes[i].children) :
           TreeNodes[i].children[k].depth = TreeNodes[i].depth + 1

C5_Witness ==
  /\ last.op = "insert"
  /\ last.outcome = "added"
  /\ LastNode.depth = 2
  /\ \E i \in 1..Len(TreeNodes) : TreeNodes[i].depth = 2

----------------------------------------------------------------------------
(* C6 *)

\* the first node of the tree, in pre-order, that has the name
FirstInPreOrder(name) ==
  LET hits == {i \in 1..Len(TreeNodes) : TreeNodes[i].name = name}
  IN  IF hits = {} THEN None ELSE Some(TreeNodes[Min(hits)])

\* C6: find_by_name returns the first node in pre-order that has the name,
\* and not-found exactly when the tree has no root or no node has the name.
C6_FindIsFirstInPreOrder ==
  /\ \A q \in ApiNames \cup {new_root.name} :
       /\ find_by_name(root, q) = FirstInPreOrder(q)
       /\ find_by_name(root, q) = None
            <=> (root = None \/ \A i \in 1..Len(TreeNodes) : TreeNodes[i].name # q)
  /\ last.op = "find" => last.found = FirstInPreOrder(last.query)

\* a search whose answer lies below the first child while a later child of
\* the root has the name too
C6_Witness ==
  /\ last.op = "find"
  /\ last.found # None
  /\ last.found[1].depth = 2
  /\ \E k \in 1..Len(root[1].children) : root[1].children[k].name = last.query

----------------------------------------------------------------------------
(* C7 *)

\* some node's children list ends with two copies of n
EndsWithTwo(nodes, n) ==
  \E i \in 1..Len(nodes) :
    LET c == nodes[i].children
    IN  Len(c) >= 2 /\ c[Len(c)] = n /\ c[Len(c) - 1] = n

\* C7: when the last insert attached its node, an insert of the same node
\* right after it attaches too: the tree has one node more and the two
\* copies end the same children list.
C7_SecondInsertDuplicates ==
  (last.op = "insert" /\ last.outcome = "added") =>
    LET again == insert(root, LastNode)
        nodes == PreOrder(again.root[1])
    IN  /\ again.outcome = "added"
        /\ Len(nodes) = Len(TreeNodes) + 1
        /\ EndsWithTwo(nodes, LastNode)

C7_Witness ==
  /\ last.op = "insert"
  /\ last.outcome = "added"
  /\ LastNode.depth = 2
  /\ EndsWithTwo(TreeNodes, LastNode)

----------------------------------------------------------------------------
(* C9 *)

\* new is old with n appended to the children list of exactly one node, and
\* nothing else changed
RECURSIVE AppendedOnce(_, _, _)
AppendedOnce(old, new, n) ==
  /\ new.node_type = old.node_type
  /\ new.data = old.data
  /\ new.depth = old.depth
  /\ new.path = old.path
  /\ new.name = old.name
  /\ \/ new.children = Append(old.children, n)
     \/ /\ Len(new.children) = Len(old.children)
        /\ \E i \in 1..Len(old.children) :
             /\ AppendedOnce(old.children[i], new.children[i], n)
             /\ \A j \in 1..Len(old.children) :
                  j # i => new.children[j] = old.children[j]

\* C9: an insert into a tree that has a root either leaves the tree as it
\* was (the node was dropped) or appends the node at the end of exactly one
\* children list, every other part of the tree staying as it was.
C9_InsertDropsOrAppends ==
  [][ (root # None /\ last'.op = "insert" /\ status' = "running")
      => \/ (root' = root /\ last'.outcome = "dropped")
         \/ /\ last'.outcome = "added"
            /\ root' # root
            /\ AppendedOnce(root[1], root'[1], last'.node[1]) ]_vars

\* a node appended below the root's level, next to an older sibling
C9_Witness ==
  /\ last.op = "insert"
  /\ last.outcome = "added"
  /\ last.at = 1
  /\ \E i \in 1..Len(TreeNodes) :
       TreeNodes[i].depth = 1 /\ Len(TreeNodes[i].children) = 2

----------------------------------------------------------------------------
(* C10 *)

\* the depth of the node inserted last is the number of components of its path
DepthMatchesPath ==
  LastNode.depth >= 1 /\ LastNode.depth = Len(split(LastNode.path, Slash))

\* for such a node the lookup stays in bounds and the descents are at most
\* depth - 1
InBoundsWhenDepthMatches ==
  (last.op = "insert" /\ DepthMatchesPath) =>
    (last.outcome # "panic" /\ last.descents <= LastNode.depth - 1)

\* C10, as stated: the lookup stays in bounds for a node whose depth is the
\* number of components of its path, and goes out of bounds only for a node
\* whose depth is not greater than the depth of the cursor reached.
C10_OutOfBoundsOnlyForShallowNode ==
  /\ InBoundsWhenDepthMatches
  /\ (last.op = "insert" /\ last.outcome = "panic") => LastNode.depth <= last.at

\* C10, amended: the lookup stays in bounds for a node whose depth is the
\* number of components of its path, and goes out of bounds only at a cursor
\* below the root whose depth is not less than the number of components of
\* the node's path; the node's depth may be greater than the cursor's.
C10_OutOfBoundsOnlyForShortPath ==
  /\ InBoundsWhenDepthMatches
  /\ (last.op = "insert" /\ last.outcome = "panic") =>
       /\ last.at >= 1
       /\ Len(split(LastNode.path, Slash)) <= last.at
       /\ LastNode.depth # last.at + 1

C10_Witness ==
  /\ last.op = "insert"
  /\ DepthMatchesPath
  /\ LastNode.depth = 2
  /\ last.descents = 1
  /\ last.outcome = "added"

----------------------------------------------------------------------------
(* C8 *)

\* the three searches of the scenario give the results the scenario names
ScenarioResults ==
  LET m == find_by_name(root, S_main_rs)
      d == find_by_name(root, S_src)
  IN  /\ m # None
      /\ m[1].node_type = File
      /\ m[1].path = L_src_main_rs
      /\ m[1].depth = 2
      /\ d # None
      /\ d[1].node_type = Directory
      /\ Len(d[1].children) = 2
      /\ find_by_name(root, S_missing) = None

\* C8, as stated: after the lines src/node.rs, src/main.rs, Cargo.toml, with
\* no line for src, the three searches give the scenario's results.
C8_ScenarioWithoutSrc ==
  hist = <<L_src_node_rs, L_src_main_rs, L_Cargo_toml>> => ScenarioResults

\* C8, amended: after those three lines both nodes below src were dropped,
\* the searches for main.rs, src and missing all report not-found and only
\* Cargo.toml is in the tree; the scenario's results are those of the run
\* that reads the line src first.
C8_ScenarioNeedsSrc ==
  /\ hist = <<L_src_node_rs, L_src_main_rs, L_Cargo_toml>> =>
       /\ find_by_name(root, S_main_rs) = None
       /\ find_by_name(root, S_src) = None
       /\ find_by_name(root, S_missing) = None
       /\ Len(TreeNodes) = 2
       /\ TreeNodes[2].name = S_Cargo_toml
  /\ hist = <<L_src, L_src_node_rs, L_src_main_rs, L_Cargo_toml>> =>
       ScenarioResults

C8_Witness ==
  /\ hist = <<L_src, L_src_node_rs, L_src_main_rs, L_Cargo_toml>>
  /\ last.op = "find"
  /\ last.query = S_main_rs
  /\ last.found # None
  /\ last.found[1].depth = 2

====
